---- MODULE Spec2Model ----
(***************************************************************************)
(* Model of rmw_connext_shared_cpp:                                        *)
(*   - get_node_names (node_names.cpp): the node-name listing query that   *)
(*     asks the transport for its discovered participants and marshals     *)
(*     their names and namespaces into two caller-provided string arrays;  *)
(*   - CustomPublisherListener::on_data_available                          *)
(*     (custom_publisher_listener.cpp): the callback that drains the       *)
(*     built-in publication reader into the discovery cache.               *)
(* C strings are modelled as pointers: Null is the null pointer, Ptr(s)    *)
(* points to the characters s.  Heap blocks are counted in `live`.         *)
(***************************************************************************)
EXTENDS Integers, Sequences, FiniteSets, TLC

\* ------------------------------------------------------------ bounds
\* Number of instance-handle slots of the transport's discovery database.
MaxParticipants == 2
\* Largest batch one take of the built-in reader yields.
MaxBatch == 2
\* Most changes of the discovery database followed during one call.
MaxChanges == 3

\* ------------------------------------------------------------ C strings
Null == <<>>
Ptr(s) == <<s>>
IsNull(p) == p = Null
Str(p) == p[1]

\* rcutils_strdup: a null source or a failed allocation gives NULL,
\* otherwise a fresh copy of the characters.
rcutils_strdup(str, ok) == IF IsNull(str) \/ ~ok THEN Null ELSE str

\* ------------------------------------------------------------ string arrays
\* rcutils_string_array_t behind a pointer: null = the pointer itself is
\* NULL; alloc = (data != NULL); data = the char* slots when allocated.
ZeroArray == [null |-> FALSE, size |-> 0, alloc |-> FALSE, data |-> <<>>]
NullArray == [null |-> TRUE, size |-> 0, alloc |-> FALSE, data |-> <<>>]
\* An array the caller has filled before the call (not zero-initialized).
CallerArray == [null |-> FALSE, size |-> 1, alloc |-> TRUE, data |-> <<Ptr("caller")>>]

\* The error message rmw_check_zero_rmw_string_array sets, "" if none.
rmw_check_zero_error(array) ==
  IF array.null THEN "array is null"
  ELSE IF array.size # 0 THEN "array size is not zero"
  ELSE IF array.alloc THEN "array data is not null"
  ELSE ""

\* rmw_check_zero_rmw_string_array: OK only for a non-null array with
\* size 0 and data NULL.
rmw_check_zero_rmw_string_array(array) ==
  IF rmw_check_zero_error(array) = "" THEN "RMW_RET_OK" ELSE "RMW_RET_ERROR"

\* Heap blocks reachable from an array: the slot vector and every string.
Blocks(array) ==
  IF array.alloc
    THEN 1 + Cardinality({k \in 1..Len(array.data) : ~IsNull(array.data[k])})
    ELSE 0

\* rcutils_string_array_init: size is stored before the slot vector is
\* zero-allocated; a failed allocation leaves data NULL.
rcutils_string_array_init_ret(array, size, ok) ==
  IF array.null THEN "RCUTILS_RET_INVALID_ARGUMENT"
  ELSE IF ~ok /\ size # 0 THEN "RCUTILS_RET_BAD_ALLOC"
  ELSE "RCUTILS_RET_OK"

rcutils_string_array_init(array, size, ok) ==
  IF array.null THEN array
  ELSE [null |-> FALSE, size |-> size, alloc |-> ok,
        data |-> IF ok THEN [k \in 1..size |-> Null] ELSE <<>>]

\* rcutils_string_array_fini: nothing to do when data is NULL; otherwise
\* every string and the slot vector are deallocated and the array is reset.
rcutils_string_array_fini_ret(array) ==
  IF array.null THEN "RCUTILS_RET_INVALID_ARGUMENT" ELSE "RCUTILS_RET_OK"

rcutils_string_array_fini(array) ==
  IF array.null \/ ~array.alloc THEN array ELSE ZeroArray

\* rmw_convert_rcutils_ret_to_rmw_ret
rmw_convert_rcutils_ret_to_rmw_ret(rcutils_ret) ==
  CASE rcutils_ret = "RCUTILS_RET_OK" -> "RMW_RET_OK"
    [] rcutils_ret = "RCUTILS_RET_INVALID_ARGUMENT" -> "RMW_RET_INVALID_ARGUMENT"
    [] rcutils_ret = "RCUTILS_RET_BAD_ALLOC" -> "RMW_RET_BAD_ALLOC"
    [] OTHER -> "RMW_RET_ERROR"

\* ------------------------------------------------------------ transport data
Handles == 1..MaxParticipants

\* ParticipantBuiltinTopicData of a discovered participant: the user-data
\* key/value records and the transport-level participant name.
PData ==
  { [user_data |-> <<<<"name", "robot1">>, <<"namespace", "/fleet">>>>,
     participant_name |-> Null],
    [user_data |-> <<<<"name", "">>>>, participant_name |-> Ptr("pname")],
    [user_data |-> <<<<"namespace", "/ns">>>>, participant_name |-> Ptr("")],
    [user_data |-> <<>>, participant_name |-> Null],
    [user_data |-> <<<<"namespace", "/b">>, <<"name", "a">>>>,
     participant_name |-> Ptr("b")] }

\* map.find(key) on the parsed user data: <<value>> if found, <<>> if not.
MapFind(user_data, key) ==
  LET hits == {k \in 1..Len(user_data) : user_data[k][1] = key}
  IN IF hits = {} THEN <<>> ELSE <<user_data[CHOOSE k \in hits : TRUE][2]>>

\* ResolveName without the fallback to the participant name.
ResolveName_NoFallback(pbtd) ==
  LET name_found == MapFind(pbtd.user_data, "name")
  IN IF name_found # <<>> THEN name_found[1] ELSE ""

\* The name the loop resolves for fetched data: the user-data `name`, or
\* the participant name when that is absent or empty.
ResolveName(pbtd) ==
  LET name_found == MapFind(pbtd.user_data, "name")
      name == IF name_found # <<>> THEN name_found[1] ELSE ""
  IN IF name = ""
       THEN (IF ~IsNull(pbtd.participant_name) THEN Str(pbtd.participant_name) ELSE "")
       ELSE name

\* The namespace the loop resolves: the user-data `namespace`, else empty.
ResolveNamespace(pbtd) ==
  LET ns_found == MapFind(pbtd.user_data, "namespace")
  IN IF ns_found # <<>> THEN ns_found[1] ELSE ""

\* ------------------------------------------------------------ state
VARIABLES
  discovered,          \* transport: handle -> <<pbtd>> when discovered, <<>> when not
  pc,                  \* position of the get_node_names call
  node,                \* argument: <<>> for a null handle, else <<node record>>
  node_names,          \* argument (output): string array
  node_namespaces,     \* argument (output): string array
  names_in,            \* node_names as the caller passed it
  namespaces_in,       \* node_namespaces as the caller passed it
  handles,             \* DDS::InstanceHandleSeq filled by the transport
  participant_qos,     \* own participant name read from the QoS
  final_ret,
  rcutils_ret,
  tmp_names_list,
  tmp_namespaces_list,
  length,
  named_nodes_num,
  i,                   \* loop index (C, 0-based)
  name,                \* std::string name of the current iteration
  namespace_,          \* std::string namespace_ of the current iteration
  ret,                 \* value returned by the call, "none" while running
  error_msg,           \* last RMW_SET_ERROR_MSG text, "" if none
  live,                \* heap blocks currently allocated
  transport_calls,     \* transport calls made by the current call
  fetched,             \* per loop iteration: <<pbtd>> fetched, <<>> on failure
  alloc_failed,        \* some allocation of the current call has failed
  lpc,                 \* position of the on_data_available callback
  retcode,             \* return code of take
  data_seq,            \* samples loaned by take (data and info together)
  li,                  \* sample loop index (C, 0-based)
  cache,               \* discovery cache: set of entity records
  cache_before,        \* cache when the current callback began
  triggers,            \* guard-condition triggers by the current callback
  loans,               \* loans currently held from the reader
  returned,            \* return_loan calls by the current callback
  applied,             \* add/remove calls made by the current callback
  instants,            \* named participants known at the instants of the current call
  changes,             \* changes of the discovery database during the current call
  listeners,           \* per built-in reader: position, batch, index and calls of its callback
  delivered,           \* per GUID: what its last delivered sample was
  snapshot             \* GUIDs a reader's last snapshot of the cache held

qvars == <<pc, node, node_names, node_namespaces, names_in, namespaces_in, handles,
           participant_qos, final_ret, rcutils_ret, tmp_names_list,
           tmp_namespaces_list, length, named_nodes_num, i, name, namespace_, ret,
           error_msg, live, transport_calls, fetched, alloc_failed>>
envvars == <<discovered>>
lvars == <<lpc, retcode, data_seq, li, cache, cache_before, triggers, loans,
           returned, applied>>
gvars == <<instants, changes, listeners, delivered, snapshot>>
vars == <<envvars, qvars, lvars, gvars>>

\* The implementation identifier get_node_names is called with.
implementation_identifier == "rmw_connext_cpp"

\* Node handles a caller may pass: null, or a node of this or of another
\* rmw implementation.  Node names are validated non-empty at creation.
Nodes ==
  {<<>>} \cup
  {<<[implementation_identifier |-> id, name |-> "talker", namespace_ |-> ns]>> :
     id \in {"rmw_connext_cpp", "rmw_other"}, ns \in {"/ns0"}}

OutputArrays == {ZeroArray, CallerArray, NullArray}

\* ------------------------------------------------------------ transport
\* A participant appears in, or leaves, the discovery database, at any time
\* and on the transport's own threads.  The call reads the database only in
\* get_discovered_participants and get_discovered_participant_data, so a
\* change is taken at the last moment before one of these reads (or between
\* calls): a change at any other moment has the same effect on the call.
\* The handles are read in ascending order, so once the loop stands at
\* handles[i - 1] a change to a lower slot is not read by this call any more.
MayChange(h) ==
  \/ pc \in {"idle", "get_discovered_participants"}
  \/ pc = "loop" /\ i < length /\ h >= handles[i]

Discover(h, d) ==
  /\ MayChange(h)
  /\ discovered[h] = <<>>
  /\ discovered' = [discovered EXCEPT ![h] = <<d>>]
  /\ UNCHANGED <<qvars, lvars, gvars>>

Lose(h) ==
  /\ MayChange(h)
  /\ discovered[h] # <<>>
  /\ discovered' = [discovered EXCEPT ![h] = <<>>]
  /\ UNCHANGED <<qvars, lvars, gvars>>

RECURSIVE HandleSeq(_)
\* The discovered handles from slot h upwards, in the transport's order.
HandleSeq(h) ==
  IF h > MaxParticipants THEN <<>>
  ELSE (IF discovered[h] # <<>> THEN <<h>> ELSE <<>>) \o HandleSeq(h + 1)

\* ------------------------------------------------------------ get_node_names
\* EntryCheck without the comparison of the implementation identifier.
EntryCheck_NoIdentifierCheck(nd, nm) ==
  IF nd = <<>> THEN "node handle is null"
  ELSE IF rmw_check_zero_rmw_string_array(nm) # "RMW_RET_OK"
    THEN rmw_check_zero_error(nm)
  ELSE ""

\* The argument checks at the head of get_node_names: the message of the
\* first check that fails, "" when all pass.
EntryCheck(nd, nm) ==
  IF nd = <<>> THEN "node handle is null"
  ELSE IF nd[1].implementation_identifier # implementation_identifier
    THEN "node handle is not from this rmw implementation"
  ELSE IF rmw_check_zero_rmw_string_array(nm) # "RMW_RET_OK"
    THEN rmw_check_zero_error(nm)
  ELSE ""

\* A caller invokes get_node_names(implementation_identifier, nd, nm, ns);
\* the checks of the handle and of node_names run.
Call(nd, nm, ns) ==
  /\ pc = "idle"
  /\ node' = nd
  /\ node_names' = nm
  /\ node_namespaces' = ns
  /\ names_in' = nm
  /\ namespaces_in' = ns
  /\ live' = Blocks(nm) + Blocks(ns)
  /\ transport_calls' = 0
  /\ fetched' = <<>>
  /\ alloc_failed' = FALSE
  /\ LET e == EntryCheck(nd, nm)
     IN IF e # ""
          THEN /\ error_msg' = e
               /\ ret' = "RMW_RET_ERROR"
               /\ pc' = "done"
          ELSE /\ error_msg' = ""
               /\ ret' = "none"
               /\ pc' = "get_discovered_participants"
  /\ UNCHANGED <<envvars, handles, participant_qos, final_ret, rcutils_ret,
                 tmp_names_list, tmp_namespaces_list, length, named_nodes_num, i,
                 name, namespace_, lvars, gvars>>

\* participant->get_discovered_participants(handles)
GetDiscoveredParticipants(ok) ==
  /\ pc = "get_discovered_participants"
  /\ transport_calls' = transport_calls + 1
  /\ IF ok
       THEN /\ handles' = HandleSeq(1)
            /\ pc' = "get_qos"
            /\ UNCHANGED <<ret, error_msg>>
       ELSE /\ error_msg' = "unable to fetch discovered participants."
            /\ ret' = "RMW_RET_ERROR"
            /\ pc' = "done"
            /\ UNCHANGED handles
  /\ UNCHANGED <<envvars, node, node_names, node_namespaces, names_in, namespaces_in,
                 participant_qos, final_ret, rcutils_ret, tmp_names_list,
                 tmp_namespaces_list, length, named_nodes_num, i, name, namespace_,
                 live, fetched, alloc_failed, lvars, gvars>>

\* participant->get_qos(participant_qos): the participant was created with
\* the node's name as its participant name.
GetQos(ok) ==
  /\ pc = "get_qos"
  /\ transport_calls' = transport_calls + 1
  /\ IF ok
       THEN /\ participant_qos' = Ptr(node[1].name)
            /\ pc' = "init_tmp_names"
            /\ UNCHANGED <<ret, error_msg>>
       ELSE /\ error_msg' = "failed to get default participant qos"
            /\ ret' = "RMW_RET_ERROR"
            /\ pc' = "done"
            /\ UNCHANGED participant_qos
  /\ UNCHANGED <<envvars, node, node_names, node_namespaces, names_in, namespaces_in,
                 handles, final_ret, rcutils_ret, tmp_names_list,
                 tmp_namespaces_list, length, named_nodes_num, i, name, namespace_,
                 live, fetched, alloc_failed, lvars, gvars>>

\* The locals are set up and tmp_names_list is initialised.
InitTmpNames(ok) ==
  /\ pc = "init_tmp_names"
  /\ length' = Len(handles) + 1
  /\ named_nodes_num' = 1
  /\ tmp_namespaces_list' = ZeroArray
  /\ tmp_names_list' = rcutils_string_array_init(ZeroArray, Len(handles) + 1, ok)
  /\ rcutils_ret' = rcutils_string_array_init_ret(ZeroArray, Len(handles) + 1, ok)
  /\ live' = live + Blocks(tmp_names_list')
  /\ alloc_failed' = (alloc_failed \/ ~ok)
  /\ IF rcutils_ret' # "RCUTILS_RET_OK"
       THEN /\ error_msg' = "failed to allocate string array"
            /\ final_ret' = rmw_convert_rcutils_ret_to_rmw_ret(rcutils_ret')
            /\ pc' = "cleanup"
       ELSE /\ final_ret' = "RMW_RET_OK"
            /\ pc' = "init_tmp_namespaces"
            /\ UNCHANGED error_msg
  /\ UNCHANGED <<envvars, node, node_names, node_namespaces, names_in, namespaces_in,
                 handles, participant_qos, i, name, namespace_, ret,
                 transport_calls, fetched, lvars, gvars>>

\* tmp_namespaces_list is initialised.
InitTmpNamespaces(ok) ==
  /\ pc = "init_tmp_namespaces"
  /\ tmp_namespaces_list' = rcutils_string_array_init(tmp_namespaces_list, length, ok)
  /\ rcutils_ret' = rcutils_string_array_init_ret(tmp_namespaces_list, length, ok)
  /\ live' = live + Blocks(tmp_namespaces_list')
  /\ alloc_failed' = (alloc_failed \/ ~ok)
  /\ IF rcutils_ret' # "RCUTILS_RET_OK"
       THEN /\ error_msg' = "failed to allocate string array"
            /\ final_ret' = rmw_convert_rcutils_ret_to_rmw_ret(rcutils_ret')
            /\ pc' = "cleanup"
       ELSE /\ pc' = "dup_own_name"
            /\ UNCHANGED <<error_msg, final_ret>>
  /\ UNCHANGED <<envvars, node, node_names, node_namespaces, names_in, namespaces_in,
                 handles, participant_qos, tmp_names_list, length, named_nodes_num,
                 i, name, namespace_, ret, transport_calls, fetched, lvars, gvars>>

\* add yourself: the own participant name goes to slot 0.
DupOwnName(ok) ==
  /\ pc = "dup_own_name"
  /\ LET p == rcutils_strdup(participant_qos, ok)
     IN /\ tmp_names_list' = [tmp_names_list EXCEPT !.data[1] = p]
        /\ IF IsNull(p)
             THEN /\ error_msg' = "could not allocate memory for a node name"
                  /\ final_ret' = rmw_convert_rcutils_ret_to_rmw_ret(rcutils_ret)
                  /\ pc' = "cleanup"
                  /\ alloc_failed' = TRUE
                  /\ UNCHANGED live
             ELSE /\ live' = live + 1
                  /\ pc' = "dup_own_namespace"
                  /\ UNCHANGED <<error_msg, final_ret, alloc_failed>>
  /\ UNCHANGED <<envvars, node, node_names, node_namespaces, names_in, namespaces_in,
                 handles, participant_qos, rcutils_ret, tmp_namespaces_list, length,
                 named_nodes_num, i, name, namespace_, ret, transport_calls, fetched,
                 lvars, gvars>>

\* add yourself: the node's namespace goes to slot 0; the loop starts at 1.
DupOwnNamespace(ok) ==
  /\ pc = "dup_own_namespace"
  /\ LET p == rcutils_strdup(Ptr(node[1].namespace_), ok)
     IN /\ tmp_namespaces_list' = [tmp_namespaces_list EXCEPT !.data[1] = p]
        /\ IF IsNull(p)
             THEN /\ error_msg' = "could not allocate memory for a node namespace"
                  /\ final_ret' = rmw_convert_rcutils_ret_to_rmw_ret(rcutils_ret)
                  /\ pc' = "cleanup"
                  /\ alloc_failed' = TRUE
                  /\ UNCHANGED <<live, i>>
             ELSE /\ live' = live + 1
                  /\ pc' = "loop"
                  /\ i' = 1
                  /\ UNCHANGED <<error_msg, final_ret, alloc_failed>>
  /\ UNCHANGED <<envvars, node, node_names, node_namespaces, names_in, namespaces_in,
                 handles, participant_qos, rcutils_ret, tmp_names_list, length,
                 named_nodes_num, name, namespace_, ret, transport_calls, fetched,
                 lvars, gvars>>

\* AfterFetch with a failed fetch ending the loop.
AfterFetch_AbortsOnFailure(dds_ok, nm) ==
  IF ~dds_ok THEN "cleanup" ELSE IF nm = "" THEN "loop" ELSE "dup_name"

\* Where an iteration goes after the fetch: the return code of the fetch
\* only decides whether name and namespace are resolved; an empty name
\* continues with the next handle, any other name is duplicated.
AfterFetch(dds_ok, nm) == IF nm = "" THEN "loop" ELSE "dup_name"

\* One iteration of the discovered-participant loop up to the test of the
\* resolved name: the data of handles[i - 1] is fetched and name and
\* namespace are resolved; a participant without a name is skipped.
LoopFetch(ok) ==
  /\ pc = "loop"
  /\ i < length
  /\ LET h == handles[i]
         got == IF ok THEN discovered[h] ELSE <<>>
         nm == IF got # <<>> THEN ResolveName(got[1]) ELSE ""
         ns == IF got # <<>> THEN ResolveNamespace(got[1]) ELSE ""
     IN /\ fetched' = Append(fetched, got)
        /\ name' = nm
        /\ namespace_' = ns
        /\ IF nm = ""
             THEN /\ tmp_names_list' = [tmp_names_list EXCEPT !.data[i + 1] = Null]
                  /\ tmp_namespaces_list' =
                       [tmp_namespaces_list EXCEPT !.data[i + 1] = Null]
                  /\ i' = i + 1
             ELSE UNCHANGED <<tmp_names_list, tmp_namespaces_list, i>>
        /\ pc' = AfterFetch(got # <<>>, nm)
  /\ transport_calls' = transport_calls + 1
  /\ UNCHANGED <<envvars, node, node_names, node_namespaces, names_in, namespaces_in,
                 handles, participant_qos, final_ret, rcutils_ret, length,
                 named_nodes_num, ret, error_msg, live, alloc_failed, lvars, gvars>>

\* NamedSlot with the loop index as the slot.
NamedSlot_LoopIndex(idx, named) == idx

\* The 0-based slot of the temporary arrays that a named participant is
\* stored in: the number of names stored so far, not the loop index.
NamedSlot(idx, named) == named

\* The resolved name is duplicated into slot named_nodes_num.
DupName(ok) ==
  /\ pc = "dup_name"
  /\ LET p == rcutils_strdup(Ptr(name), ok)
     IN /\ tmp_names_list' =
             [tmp_names_list EXCEPT !.data[NamedSlot(i, named_nodes_num) + 1] = p]
        /\ IF IsNull(p)
             THEN /\ error_msg' = "could not allocate memory for a node's name"
                  /\ final_ret' = rmw_convert_rcutils_ret_to_rmw_ret(rcutils_ret)
                  /\ pc' = "cleanup"
                  /\ alloc_failed' = TRUE
                  /\ UNCHANGED live
             ELSE /\ live' = live + 1
                  /\ pc' = "dup_namespace"
                  /\ UNCHANGED <<error_msg, final_ret, alloc_failed>>
  /\ UNCHANGED <<envvars, node, node_names, node_namespaces, names_in, namespaces_in,
                 handles, participant_qos, rcutils_ret, tmp_namespaces_list, length,
                 named_nodes_num, i, name, namespace_, ret, transport_calls, fetched,
                 lvars, gvars>>

\* The resolved namespace is duplicated into slot named_nodes_num, which
\* then advances together with the loop index.
DupNamespace(ok) ==
  /\ pc = "dup_namespace"
  /\ LET p == rcutils_strdup(Ptr(namespace_), ok)
     IN /\ tmp_namespaces_list' =
             [tmp_namespaces_list EXCEPT !.data[NamedSlot(i, named_nodes_num) + 1] = p]
        /\ IF IsNull(p)
             THEN /\ error_msg' = "could not allocate memory for a node's namespace"
                  /\ final_ret' = rmw_convert_rcutils_ret_to_rmw_ret(rcutils_ret)
                  /\ pc' = "cleanup"
                  /\ alloc_failed' = TRUE
                  /\ UNCHANGED <<live, named_nodes_num, i>>
             ELSE /\ live' = live + 1
                  /\ named_nodes_num' = named_nodes_num + 1
                  /\ i' = i + 1
                  /\ pc' = "loop"
                  /\ UNCHANGED <<error_msg, final_ret, alloc_failed>>
  /\ UNCHANGED <<envvars, node, node_names, node_namespaces, names_in, namespaces_in,
                 handles, participant_qos, rcutils_ret, tmp_names_list, length,
                 name, namespace_, ret, transport_calls, fetched, lvars, gvars>>

\* Heap blocks rcutils_string_array_init allocates: the slot vector.
InitBlocks(array, ok) == IF ~array.null /\ ok THEN 1 ELSE 0

\* Heap blocks rcutils_string_array_fini deallocates.
FiniBlocks(array) == IF array.null THEN 0 ELSE Blocks(array)

\* After the loop: prepare actual output without empty names (node_names).
InitNodeNames(ok) ==
  /\ pc = "loop"
  /\ ~(i < length)
  /\ node_names' = rcutils_string_array_init(node_names, named_nodes_num, ok)
  /\ rcutils_ret' = rcutils_string_array_init_ret(node_names, named_nodes_num, ok)
  /\ live' = live + InitBlocks(node_names, ok)
  /\ alloc_failed' = (alloc_failed \/ (~node_names.null /\ ~ok))
  /\ IF rcutils_ret' # "RCUTILS_RET_OK"
       THEN /\ error_msg' = "could not allocate memory for node_names output"
            /\ final_ret' = rmw_convert_rcutils_ret_to_rmw_ret(rcutils_ret')
            /\ pc' = "cleanup"
       ELSE /\ pc' = "init_node_namespaces"
            /\ UNCHANGED <<error_msg, final_ret>>
  /\ UNCHANGED <<envvars, node, node_namespaces, names_in, namespaces_in, handles,
                 participant_qos, tmp_names_list, tmp_namespaces_list, length,
                 named_nodes_num, i, name, namespace_, ret, transport_calls, fetched,
                 lvars, gvars>>

\* node_namespaces is initialised; the copy loop starts at 0.
InitNodeNamespaces(ok) ==
  /\ pc = "init_node_namespaces"
  /\ node_namespaces' = rcutils_string_array_init(node_namespaces, named_nodes_num, ok)
  /\ rcutils_ret' = rcutils_string_array_init_ret(node_namespaces, named_nodes_num, ok)
  /\ live' = live + InitBlocks(node_namespaces, ok)
  /\ alloc_failed' = (alloc_failed \/ (~node_namespaces.null /\ ~ok))
  /\ IF rcutils_ret' # "RCUTILS_RET_OK"
       THEN /\ error_msg' = "could not allocate memory for node_namespaces output"
            /\ final_ret' = rmw_convert_rcutils_ret_to_rmw_ret(rcutils_ret')
            /\ pc' = "cleanup"
            /\ UNCHANGED i
       ELSE /\ pc' = "copy"
            /\ i' = 0
            /\ UNCHANGED <<error_msg, final_ret>>
  /\ UNCHANGED <<envvars, node, node_names, names_in, namespaces_in, handles,
                 participant_qos, tmp_names_list, tmp_namespaces_list, length,
                 named_nodes_num, name, namespace_, ret, transport_calls, fetched,
                 lvars, gvars>>

\* One iteration of the copy loop: slot i of both temporaries is duplicated
\* into the outputs and the temporary slots are set to nullptr.
Copy(ok_name, ok_ns) ==
  /\ pc = "copy"
  /\ i < named_nodes_num
  /\ LET pn == rcutils_strdup(tmp_names_list.data[i + 1], ok_name)
         ps == rcutils_strdup(tmp_namespaces_list.data[i + 1], ok_ns)
     IN /\ node_names' = [node_names EXCEPT !.data[i + 1] = pn]
        /\ node_namespaces' = [node_namespaces EXCEPT !.data[i + 1] = ps]
        /\ live' = live + (IF IsNull(pn) THEN 0 ELSE 1) + (IF IsNull(ps) THEN 0 ELSE 1)
        /\ alloc_failed' = (alloc_failed \/ ~ok_name \/ ~ok_ns)
  /\ tmp_names_list' = [tmp_names_list EXCEPT !.data[i + 1] = Null]
  /\ tmp_namespaces_list' = [tmp_namespaces_list EXCEPT !.data[i + 1] = Null]
  /\ i' = i + 1
  /\ UNCHANGED <<envvars, pc, node, names_in, namespaces_in, handles, participant_qos,
                 final_ret, rcutils_ret, length, named_nodes_num, name, namespace_,
                 ret, error_msg, transport_calls, fetched, lvars, gvars>>

\* After the copy loop: both temporaries are finalised and OK is returned.
FiniTmp ==
  /\ pc = "copy"
  /\ ~(i < named_nodes_num)
  /\ IF rcutils_string_array_fini_ret(tmp_names_list) # "RCUTILS_RET_OK"
       THEN /\ rcutils_ret' = rcutils_string_array_fini_ret(tmp_names_list)
            /\ error_msg' = "failed to free tmp_names_list"
            /\ final_ret' = rmw_convert_rcutils_ret_to_rmw_ret(rcutils_ret')
            /\ pc' = "cleanup"
            /\ UNCHANGED <<tmp_names_list, tmp_namespaces_list, live, ret>>
       ELSE /\ tmp_names_list' = rcutils_string_array_fini(tmp_names_list)
            /\ rcutils_ret' = rcutils_string_array_fini_ret(tmp_namespaces_list)
            /\ IF rcutils_ret' # "RCUTILS_RET_OK"
                 THEN /\ error_msg' = "failed to free tmp_namespaces_list"
                      /\ final_ret' = rmw_convert_rcutils_ret_to_rmw_ret(rcutils_ret')
                      /\ pc' = "cleanup"
                      /\ live' = live - FiniBlocks(tmp_names_list)
                      /\ UNCHANGED <<tmp_namespaces_list, ret>>
                 ELSE /\ tmp_namespaces_list' =
                           rcutils_string_array_fini(tmp_namespaces_list)
                      /\ live' = live - FiniBlocks(tmp_names_list)
                                      - FiniBlocks(tmp_namespaces_list)
                      /\ ret' = "RMW_RET_OK"
                      /\ pc' = "done"
                      /\ UNCHANGED <<error_msg, final_ret>>
  /\ UNCHANGED <<envvars, node, node_names, node_namespaces, names_in, namespaces_in,
                 handles, participant_qos, length, named_nodes_num, i, name,
                 namespace_, transport_calls, fetched, alloc_failed, lvars, gvars>>

\* cleanup: both outputs (when the pointer is not null) and both
\* temporaries are finalised and final_ret is returned.
Cleanup ==
  /\ pc = "cleanup"
  /\ node_names' = IF node_names.null THEN node_names
                    ELSE rcutils_string_array_fini(node_names)
  /\ node_namespaces' = IF node_namespaces.null THEN node_namespaces
                         ELSE rcutils_string_array_fini(node_namespaces)
  /\ tmp_names_list' = rcutils_string_array_fini(tmp_names_list)
  /\ tmp_namespaces_list' = rcutils_string_array_fini(tmp_namespaces_list)
  /\ rcutils_ret' = rcutils_string_array_fini_ret(tmp_namespaces_list)
  /\ live' = live - FiniBlocks(node_names) - FiniBlocks(node_namespaces)
                  - FiniBlocks(tmp_names_list) - FiniBlocks(tmp_namespaces_list)
  /\ ret' = final_ret
  /\ pc' = "done"
  /\ UNCHANGED <<envvars, node, names_in, namespaces_in, handles, participant_qos,
                 final_ret, length, named_nodes_num, i, name, namespace_, error_msg,
                 transport_calls, fetched, alloc_failed, lvars, gvars>>

\* The caller has its answer; the next call starts from fresh arguments.
Return ==
  /\ pc = "done"
  /\ pc' = "idle"
  /\ node' = <<>>
  /\ node_names' = ZeroArray
  /\ node_namespaces' = ZeroArray
  /\ names_in' = ZeroArray
  /\ namespaces_in' = ZeroArray
  /\ handles' = <<>>
  /\ participant_qos' = Null
  /\ final_ret' = "RMW_RET_OK"
  /\ rcutils_ret' = "RCUTILS_RET_OK"
  /\ tmp_names_list' = ZeroArray
  /\ tmp_namespaces_list' = ZeroArray
  /\ length' = 0
  /\ named_nodes_num' = 0
  /\ i' = 0
  /\ name' = ""
  /\ namespace_' = ""
  /\ ret' = "none"
  /\ error_msg' = ""
  /\ live' = 0
  /\ transport_calls' = 0
  /\ fetched' = <<>>
  /\ alloc_failed' = FALSE
  /\ UNCHANGED <<discovered, lvars, gvars>>

QueryInit ==
  /\ pc = "idle"
  /\ node = <<>>
  /\ node_names = ZeroArray
  /\ node_namespaces = ZeroArray
  /\ names_in = ZeroArray
  /\ namespaces_in = ZeroArray
  /\ handles = <<>>
  /\ participant_qos = Null
  /\ final_ret = "RMW_RET_OK"
  /\ rcutils_ret = "RCUTILS_RET_OK"
  /\ tmp_names_list = ZeroArray
  /\ tmp_namespaces_list = ZeroArray
  /\ length = 0
  /\ named_nodes_num = 0
  /\ i = 0
  /\ name = ""
  /\ namespace_ = ""
  /\ ret = "none"
  /\ error_msg = ""
  /\ live = 0
  /\ transport_calls = 0
  /\ fetched = <<>>
  /\ alloc_failed = FALSE

EnvInit == discovered = [h \in Handles |-> <<>>]

\* ------------------------------------------------------------ discovery cache
\* DDS_InstanceHandle_to_GUID: the 16 key-hash bytes of the instance handle
\* become the GUID's value.
DDS_InstanceHandle_to_GUID(instance_handle) == [value |-> instance_handle.keyHash]

\* DDS_BuiltinTopicKey_to_GUID: the words of the built-in topic key become
\* the GUID's value.
DDS_BuiltinTopicKey_to_GUID(key) == [value |-> key.value]

EmptyCache == [entities |-> {}, participants |-> {}]

\* add_entity: insert or overwrite the record of guid, create a placeholder
\* (unnamed) participant for an owner not known yet, and register guid as a
\* child of its owner.
add_information(c, participant_guid, guid, topic_name, type_name, kind) ==
  LET rec == [guid |-> guid, owning_participant_guid |-> participant_guid,
              topic_name |-> topic_name, type_name |-> type_name, kind |-> kind]
      known == {p \in c.participants : p.guid = participant_guid}
      owner == IF known = {}
                 THEN [guid |-> participant_guid, name |-> Null, namespace |-> Null,
                       children |-> {}]
                 ELSE CHOOSE p \in known : TRUE
  IN [entities |-> {e \in c.entities : e.guid # guid} \cup {rec},
      participants |->
        {[p EXCEPT !.children = @ \ {guid}] : p \in c.participants \ known}
          \cup {[owner EXCEPT !.children = @ \cup {guid}]}]

\* remove_entity deleting only the record of guid and its ParticipantInfo.
remove_information_NoCascade(c, guid, kind) ==
  [entities |-> {e \in c.entities : e.guid # guid},
   participants |-> {[p EXCEPT !.children = @ \ {guid}] :
                       p \in {q \in c.participants : q.guid # guid}}]

\* remove_entity: delete the record of guid if present; for a participant
\* also its ParticipantInfo and all its child endpoints, for an endpoint
\* unregister it from its owner.  An absent guid is a no-op.
remove_information(c, guid, kind) ==
  IF kind = "Participant"
    THEN [entities |-> {e \in c.entities :
                          e.guid # guid /\ e.owning_participant_guid # guid},
          participants |-> {p \in c.participants : p.guid # guid}]
    ELSE [entities |-> {e \in c.entities : e.guid # guid},
          participants |-> {[p EXCEPT !.children = @ \ {guid}] : p \in c.participants}]

\* ------------------------------------------------------------ on_data_available
\* The publications the transport may report: the topic and the type of
\* an endpoint never change, so each instance handle has its own.
Publications ==
  { [instance_handle |-> [keyHash |-> <<1>>], participant_key |-> [value |-> <<7>>],
     topic_name |-> "chatter", type_name |-> "String"],
    [instance_handle |-> [keyHash |-> <<2>>], participant_key |-> [value |-> <<7>>],
     topic_name |-> "scan", type_name |-> "LaserScan"] }

\* One sample of the built-in publication reader: data_seq[i] and
\* info_seq[i] together.
Samples ==
  { [instance_handle |-> p.instance_handle, participant_key |-> p.participant_key,
     topic_name |-> p.topic_name, type_name |-> p.type_name,
     valid_data |-> v, instance_state |-> st] :
      p \in Publications, v \in BOOLEAN,
      st \in {"ALIVE_INSTANCE_STATE", "NOT_ALIVE_DISPOSED_INSTANCE_STATE"} }

Batches == UNION {[1..n -> Samples] : n \in 0..MaxBatch}

TakeRetcodes == {"RETCODE_OK", "RETCODE_NO_DATA", "RETCODE_ERROR"}

\* ReturnsEarly with the test for the other error codes left out.
ReturnsEarly_OnlyNoData(rc) == rc = "RETCODE_NO_DATA"

\* The two tests of take's return code that end the callback early.
ReturnsEarly(rc) == rc = "RETCODE_NO_DATA" \/ rc # "RETCODE_OK"

\* The callback begins: the reader is narrowed and the samples are taken.
\* A failed narrow, NO_DATA or an error makes the callback return at once.
\* take hands out a loan only with RETCODE_OK; what it leaves in the
\* sequences otherwise is the transport's business, so any batch may be there.
OnDataAvailable(narrow_ok, rc, batch) ==
  /\ lpc = "idle"
  /\ cache_before' = cache
  /\ triggers' = 0
  /\ returned' = 0
  /\ applied' = <<>>
  /\ li' = 0
  /\ IF ~narrow_ok
       THEN /\ lpc' = "returned"
            /\ retcode' = "none"
            /\ UNCHANGED <<data_seq, loans>>
       ELSE /\ retcode' = rc
            /\ data_seq' = batch
            /\ loans' = IF rc = "RETCODE_OK" THEN loans + 1 ELSE loans
            /\ lpc' = IF ReturnsEarly(rc) THEN "returned" ELSE "loop"
  /\ UNCHANGED <<cache, envvars, qvars, gvars>>

\* SampleOp deciding on valid_data alone.
SampleOp_ValidDataOnly(sample) == IF sample.valid_data THEN "add" ELSE "remove"

\* The sample the loop applies: "add" for valid data of an alive instance,
\* "remove" otherwise.
SampleOp(sample) ==
  IF sample.valid_data /\ sample.instance_state = "ALIVE_INSTANCE_STATE"
    THEN "add" ELSE "remove"

\* SampleAt with the batch walked from its end.
SampleAt_Reversed(seq, idx) == seq[Len(seq) - idx]

\* data_seq[i] with info_seq[i]: the sample at the loop's 0-based index.
SampleAt(seq, idx) == seq[idx + 1]

\* SampleGuid taken from the owning participant's key.
SampleGuid_ParticipantKey(sample) == DDS_BuiltinTopicKey_to_GUID(sample.participant_key)

\* The GUID of the sample's entity, from the instance handle of its info.
SampleGuid(sample) == DDS_InstanceHandle_to_GUID(sample.instance_handle)

\* One iteration of the sample loop.
ApplySample ==
  /\ lpc = "loop"
  /\ li < Len(data_seq)
  /\ LET sample == SampleAt(data_seq, li)
         guid == SampleGuid(sample)
         participant_guid == DDS_BuiltinTopicKey_to_GUID(sample.participant_key)
     IN IF SampleOp(sample) = "add"
          THEN /\ cache' = add_information(cache, participant_guid, guid,
                                           sample.topic_name, sample.type_name,
                                           "Publisher")
               /\ applied' = Append(applied,
                                    [op |-> "add", guid |-> guid,
                                     participant_guid |-> participant_guid,
                                     topic_name |-> sample.topic_name,
                                     type_name |-> sample.type_name,
                                     kind |-> "Publisher"])
          ELSE /\ cache' = remove_information(cache, guid, "Publisher")
               /\ applied' = Append(applied,
                                    [op |-> "remove", guid |-> guid,
                                     kind |-> "Publisher"])
  /\ li' = li + 1
  /\ UNCHANGED <<lpc, retcode, data_seq, cache_before, triggers, loans, returned,
                 envvars, qvars, gvars>>

\* TriggerCount with the trigger inside the sample loop.
TriggerCount_PerSample(len) == len

\* TriggerCount without the test of the batch's length.
TriggerCount_Always(len) == 1

\* How often the guard condition is triggered for a batch of len samples.
TriggerCount(len) == IF len > 0 THEN 1 ELSE 0

\* TriggerGuard with the trigger ahead of the sample loop.
TriggerGuard_BeforeLoop ==
  /\ lpc = "loop"
  /\ li = 0
  /\ triggers = 0
  /\ triggers' = triggers + TriggerCount(Len(data_seq))
  /\ lpc' = IF Len(data_seq) > 0 THEN "loop" ELSE "return_loan"
  /\ UNCHANGED <<retcode, data_seq, li, cache, cache_before, loans, returned, applied,
                 envvars, qvars, gvars>>

\* After the loop: trigger_graph_guard_condition if the batch was not empty.
TriggerGuard ==
  /\ lpc = "loop"
  /\ ~(li < Len(data_seq))
  /\ triggers' = triggers + TriggerCount(Len(data_seq))
  /\ lpc' = "return_loan"
  /\ UNCHANGED <<retcode, data_seq, li, cache, cache_before, loans, returned, applied,
                 envvars, qvars, gvars>>

\* ReturnLoan with an early return for an empty batch.
ReturnLoan_SkipsEmptyBatch ==
  /\ lpc = "return_loan"
  /\ IF Len(data_seq) = 0
       THEN UNCHANGED <<loans, returned>>
       ELSE loans' = loans - 1 /\ returned' = returned + 1
  /\ lpc' = "returned"
  /\ UNCHANGED <<retcode, data_seq, li, cache, cache_before, triggers, applied,
                 envvars, qvars, gvars>>

\* builtin_reader->return_loan(data_seq, info_seq), then the callback returns.
ReturnLoan ==
  /\ lpc = "return_loan"
  /\ loans' = loans - 1
  /\ returned' = returned + 1
  /\ lpc' = "returned"
  /\ UNCHANGED <<retcode, data_seq, li, cache, cache_before, triggers, applied,
                 envvars, qvars, gvars>>

\* The transport has its thread back; the listener waits for the next
\* notification.
ListenerIdle ==
  /\ lpc = "returned"
  /\ lpc' = "idle"
  /\ retcode' = "none"
  /\ li' = 0
  /\ triggers' = 0
  /\ returned' = 0
  /\ applied' = <<>>
  /\ data_seq' = <<>>
  /\ cache_before' = cache
  /\ UNCHANGED <<cache, loans, envvars, qvars, gvars>>

ListenerInit ==
  /\ lpc = "idle"
  /\ retcode = "none"
  /\ data_seq = <<>>
  /\ li = 0
  /\ cache = EmptyCache
  /\ cache_before = EmptyCache
  /\ triggers = 0
  /\ loans = 0
  /\ returned = 0
  /\ applied = <<>>

\* ------------------------------------------------------------ concurrent listeners
\* The listeners that feed endpoints into the cache, one per built-in
\* reader, named by the EntityType each passes on.
Listeners == {"Publisher", "Subscriber"}

\* The key hash of the instance a listener's reader reports: the two
\* readers report disjoint GUIDs.
ListenerKey(l) == IF l = "Publisher" THEN <<1>> ELSE <<3>>

\* The samples a listener's reader may deliver: valid data of an alive
\* instance, or the disposal of the instance.
ListenerSamples(l) ==
  {[instance_handle |-> [keyHash |-> ListenerKey(l)],
    participant_key |-> [value |-> <<7>>],
    topic_name |-> "chatter", type_name |-> "String",
    valid_data |-> alive,
    instance_state |-> IF alive THEN "ALIVE_INSTANCE_STATE"
                       ELSE "NOT_ALIVE_DISPOSED_INSTANCE_STATE"] : alive \in BOOLEAN}

ListenerBatches(l) == UNION {[1..n -> ListenerSamples(l)] : n \in 0..MaxBatch}

ListenerGuids == {DDS_InstanceHandle_to_GUID([keyHash |-> ListenerKey(l)]) : l \in Listeners}

IdleListener == [pc |-> "idle", data_seq |-> <<>>, i |-> 0, calls |-> <<>>]

GhostInit ==
  /\ instants = {{}}
  /\ changes = 0
  /\ listeners = [l \in Listeners |-> IdleListener]
  /\ delivered = [g \in ListenerGuids |-> "none"]
  /\ snapshot = {}

\* ------------------------------------------------------------ specifications
Init == EnvInit /\ QueryInit /\ ListenerInit /\ GhostInit

\* get_node_names against a transport whose discovery database changes.
Next ==
  \/ \E h \in Handles, d \in PData : Discover(h, d)
  \/ \E h \in Handles : Lose(h)
  \/ \E nd \in Nodes, nm \in OutputArrays, ns \in OutputArrays : Call(nd, nm, ns)
  \/ \E ok \in BOOLEAN : GetDiscoveredParticipants(ok)
  \/ \E ok \in BOOLEAN : GetQos(ok)
  \/ \E ok \in BOOLEAN : InitTmpNames(ok)
  \/ \E ok \in BOOLEAN : InitTmpNamespaces(ok)
  \/ \E ok \in BOOLEAN : DupOwnName(ok)
  \/ \E ok \in BOOLEAN : DupOwnNamespace(ok)
  \/ \E ok \in BOOLEAN : LoopFetch(ok)
  \/ \E ok \in BOOLEAN : DupName(ok)
  \/ \E ok \in BOOLEAN : DupNamespace(ok)
  \/ \E ok \in BOOLEAN : InitNodeNames(ok)
  \/ \E ok \in BOOLEAN : InitNodeNamespaces(ok)
  \/ \E ok_name \in BOOLEAN, ok_ns \in BOOLEAN : Copy(ok_name, ok_ns)
  \/ FiniTmp
  \/ Cleanup
  \/ Return

Spec == Init /\ [][Next]_vars

\* The publication listener's callback, run by the transport's thread.
ListenerNext ==
  \/ \E narrow_ok \in BOOLEAN, rc \in TakeRetcodes, batch \in Batches :
       OnDataAvailable(narrow_ok, rc, batch)
  \/ ApplySample
  \/ TriggerGuard
  \/ ReturnLoan
  \/ ListenerIdle

SpecListener == Init /\ [][ListenerNext]_vars

\* ------------------------------------------------------------ cache events
\* The cache fed with events directly: endpoints of two kinds owned by two
\* participants appear and disappear, and participants disappear.
EndpointGuids == {DDS_InstanceHandle_to_GUID(p.instance_handle) : p \in Publications}

OwnerGuids == {[value |-> <<7>>], [value |-> <<8>>]}

EndpointKinds == {"Publisher", "Subscriber"}

\* An alive endpoint sample applied to the cache.
AddEvent(guid, owner, kind) ==
  /\ lpc = "idle"
  /\ cache_before' = cache
  /\ cache' = add_information(cache, owner, guid, "chatter", "String", kind)
  /\ applied' = <<[op |-> "add", guid |-> guid, participant_guid |-> owner,
                   topic_name |-> "chatter", type_name |-> "String", kind |-> kind]>>
  /\ UNCHANGED <<lpc, retcode, data_seq, li, triggers, loans, returned, envvars, qvars, gvars>>

\* A not-alive sample of an endpoint or of a participant applied to the
\* cache.
RemoveEvent(guid, kind) ==
  /\ lpc = "idle"
  /\ cache_before' = cache
  /\ cache' = remove_information(cache, guid, kind)
  /\ applied' = <<[op |-> "remove", guid |-> guid, kind |-> kind]>>
  /\ UNCHANGED <<lpc, retcode, data_seq, li, triggers, loans, returned, envvars, qvars, gvars>>

CacheNext ==
  \/ \E guid \in EndpointGuids, owner \in OwnerGuids, kind \in EndpointKinds :
       AddEvent(guid, owner, kind)
  \/ \E guid \in EndpointGuids, kind \in EndpointKinds : RemoveEvent(guid, kind)
  \/ \E guid \in OwnerGuids : RemoveEvent(guid, "Participant")

SpecCache == Init /\ [][CacheNext]_vars

\* ------------------------------------------------------------ properties
\* The zero-initialized state of a string array: size 0 and data NULL.
ZeroInitialized(array) == ~array.null /\ array.size = 0 /\ ~array.alloc

\* Every slot of the array holds a string.
FullyPopulated(array) ==
  /\ array.alloc
  /\ Len(array.data) = array.size
  /\ \A k \in 1..array.size : ~IsNull(array.data[k])

\* The call has returned OK.
ReturnedOK == pc = "done" /\ ret = "RMW_RET_OK"

\* The call was made as the interface requires: both output arrays
\* zero-initialized by the caller.
ZeroOutputsPassed == ZeroInitialized(names_in) /\ ZeroInitialized(namespaces_in)

\* The caller passed a node of this implementation.
ValidHandle == node # <<>> /\ node[1].implementation_identifier = implementation_identifier

\* The name a participant is listed under: the user-data `name` value when
\* that key is present and non-empty, else the transport-level name.
ListedName(pbtd) ==
  IF \E k \in 1..Len(pbtd.user_data) :
       pbtd.user_data[k][1] = "name" /\ pbtd.user_data[k][2] # ""
    THEN (CHOOSE kv \in {pbtd.user_data[k] : k \in 1..Len(pbtd.user_data)} :
            kv[1] = "name")[2]
    ELSE IF pbtd.participant_name = Null THEN "" ELSE pbtd.participant_name[1]

\* The namespace a participant is listed under: the user-data `namespace`
\* value when that key is present, else the empty string.
ListedNamespace(pbtd) ==
  IF \E k \in 1..Len(pbtd.user_data) : pbtd.user_data[k][1] = "namespace"
    THEN (CHOOSE kv \in {pbtd.user_data[k] : k \in 1..Len(pbtd.user_data)} :
            kv[1] = "namespace")[2]
    ELSE ""

\* A fetch that delivered the data of a participant with a non-empty name.
IsNamed(got) == got # <<>> /\ ListedName(got[1]) # ""

\* The participants fetched by the current call that have a name, in order.
NamedFetched == SelectSeq(fetched, IsNamed)

\* The (name, namespace) pairs the current call is to report after its own.
ExpectedPairs ==
  [k \in 1..Len(NamedFetched) |->
     <<Ptr(ListedName(NamedFetched[k][1])), Ptr(ListedNamespace(NamedFetched[k][1]))>>]

\* The body of C1: equal lengths of at least 1, the own node at index 0,
\* every later index a pair taken from one fetched participant.
OwnNodeFirstAndPaired ==
  /\ ~node_names.null /\ ~node_namespaces.null
  /\ node_names.size = node_namespaces.size
  /\ node_names.size >= 1
  /\ node_names.alloc /\ node_namespaces.alloc
  /\ node_names.data[1] = Ptr(node[1].name)
  /\ node_namespaces.data[1] = Ptr(node[1].namespace_)
  /\ \A k \in 2..node_names.size :
       \E j \in 1..Len(fetched) :
         /\ fetched[j] # <<>>
         /\ node_names.data[k] = Ptr(ListedName(fetched[j][1]))
         /\ node_namespaces.data[k] = Ptr(ListedNamespace(fetched[j][1]))

\* C1: in every successful result of get_node_names the two arrays have the
\* same length of at least 1, index 0 holds the caller's own name and
\* namespace, and every index i >= 1 holds the name and the namespace of one
\* and the same discovered participant.
C1_OwnNodeFirstAndPaired ==
  (ReturnedOK /\ ZeroOutputsPassed) => OwnNodeFirstAndPaired

\* C1 restricted to the calls in which no allocation failed.
C1_HoldsIfNoAllocationFails == (ReturnedOK /\ ~alloc_failed) => OwnNodeFirstAndPaired

\* The body of C2: both arrays sized 1 + (named participants) and full.
ExactSizeAndPopulated ==
  /\ ~node_names.null /\ ~node_namespaces.null
  /\ node_names.size = 1 + Len(NamedFetched)
  /\ node_namespaces.size = 1 + Len(NamedFetched)
  /\ FullyPopulated(node_names)
  /\ FullyPopulated(node_namespaces)

\* C2: whenever get_node_names returns OK, both arrays have size exactly
\* 1 + (number of discovered participants with a non-empty resolved name)
\* and every entry of both is populated, whatever the allocations did.
C2_ExactSizeAndPopulated ==
  (ReturnedOK /\ ZeroOutputsPassed) => ExactSizeAndPopulated

\* C2 restricted to the calls in which no allocation failed.
C2_HoldsIfNoAllocationFails == (ReturnedOK /\ ~alloc_failed) => ExactSizeAndPopulated

\* C3: whenever get_node_names returns a status other than OK, both output
\* arrays are zero-initialized on return and nothing the call allocated is
\* still allocated.  Stated for the calls that were handed zero-initialized
\* arrays, where the arrays hold nothing of the caller's.
C3_FailureLeavesZeroState ==
  (/\ pc = "done"
   /\ ret # "RMW_RET_OK"
   /\ ZeroInitialized(names_in)
   /\ ZeroInitialized(namespaces_in))
  => (/\ ZeroInitialized(node_names)
      /\ ZeroInitialized(node_namespaces)
      /\ live = 0)

\* C4: if any allocation fails while get_node_names builds its result, the
\* call returns the resource-exhausted status; never OK.
C4_AllocationFailureIsBadAlloc ==
  (pc = "done" /\ alloc_failed) => ret = "RMW_RET_BAD_ALLOC"

\* The body of C5: every entry of node_names is a non-empty string.
NamesNonEmpty ==
  \A k \in 1..node_names.size :
    /\ node_names.alloc
    /\ ~IsNull(node_names.data[k])
    /\ Str(node_names.data[k]) # ""

\* C5: every name returned by a successful get_node_names is a non-empty
\* string, at every index of node_names.
C5_NamesNonEmpty == (ReturnedOK /\ ZeroOutputsPassed) => NamesNonEmpty

\* C5 restricted to the calls in which no allocation failed.
C5_HoldsIfNoAllocationFails == (ReturnedOK /\ ~alloc_failed) => NamesNonEmpty

\* The body of C6: after the own node the arrays hold, in order, exactly the
\* pairs of the fetched participants with a non-empty resolved name.
PairsAreResolved ==
  /\ node_names.size <= 1 + Len(ExpectedPairs)
  /\ node_namespaces.size <= 1 + Len(ExpectedPairs)
  /\ \A k \in 1..Len(ExpectedPairs) :
       /\ node_names.alloc /\ node_namespaces.alloc
       /\ node_names.size > k /\ node_namespaces.size > k
       /\ <<node_names.data[k + 1], node_namespaces.data[k + 1]>> = ExpectedPairs[k]

\* C6: for every discovered participant the pair reported is (resolved
\* name, resolved namespace): the name is the user-data `name` if present
\* and non-empty, else the participant name; the namespace is the user-data
\* `namespace` if present, else empty; and the participant is left out if
\* and only if its resolved name is empty.
C6_PairsAreResolved == (ReturnedOK /\ ZeroOutputsPassed) => PairsAreResolved

\* C6 restricted to the calls in which no allocation failed.
C6_HoldsIfNoAllocationFails == (ReturnedOK /\ ~alloc_failed) => PairsAreResolved

\* The messages of the zero-initialization check of an output array.
PreconditionMessages == {"array size is not zero", "array data is not null"}

\* C7: if either output array is not zero-initialized when get_node_names
\* is called (with a valid handle), the call fails with the precondition
\* error and neither array is modified, overwritten or freed.
C7_NonZeroOutputRejected ==
  (/\ pc = "done"
   /\ ValidHandle
   /\ ~names_in.null /\ ~namespaces_in.null
   /\ (~ZeroInitialized(names_in) \/ ~ZeroInitialized(namespaces_in)))
  => (/\ ret = "RMW_RET_ERROR"
      /\ error_msg \in PreconditionMessages
      /\ node_names = names_in
      /\ node_namespaces = namespaces_in)

\* The messages by which the call reports an invalid handle.
InvalidHandleMessages ==
  {"node handle is null", "node handle is not from this rmw implementation"}

\* C8: if the node handle is null or of another implementation, the call
\* fails with the invalid-handle error, makes no transport call and leaves
\* both output arrays and the heap untouched.
C8_InvalidHandleRejected ==
  (pc = "done" /\ ~ValidHandle)
  => (/\ ret = "RMW_RET_ERROR"
      /\ error_msg \in InvalidHandleMessages
      /\ transport_calls = 0
      /\ node_names = names_in
      /\ node_namespaces = namespaces_in
      /\ live = Blocks(names_in) + Blocks(namespaces_in))

\* Reached: a call with a handle of another implementation and an output
\* array that is not zero-initialized has returned.
C8_Witness ==
  /\ pc = "done"
  /\ node # <<>>
  /\ node[1].implementation_identifier # implementation_identifier
  /\ names_in = CallerArray
  /\ discovered[1] # <<>>
  /\ ret = "RMW_RET_ERROR"

\* C9: in one callback whose take succeeds the guard condition is triggered
\* exactly once for a batch of at least one sample, however many, and not
\* at all for an empty batch.
C9_TriggeredOncePerBatch ==
  (lpc = "returned" /\ retcode = "RETCODE_OK")
  => triggers = (IF Len(data_seq) >= 1 THEN 1 ELSE 0)

\* Reached: a callback that took a batch of two samples has returned.
C9_Witness ==
  /\ lpc = "returned"
  /\ retcode = "RETCODE_OK"
  /\ Len(data_seq) = 2
  /\ Len(applied) = 2
  /\ triggers = 1

\* C10: if narrowing fails or take returns any code other than OK, the
\* callback returns with the cache as it was before and the guard condition
\* not triggered; the callback returns normally.
C10_FailedTakeChangesNothing ==
  (lpc # "idle" /\ retcode # "RETCODE_OK")
  => (/\ lpc = "returned"
      /\ cache = cache_before
      /\ triggers = 0)

\* Reached: take failed with an error while the cache was not empty.
C10_Witness ==
  /\ lpc = "returned"
  /\ retcode = "RETCODE_ERROR"
  /\ cache # EmptyCache
  /\ cache = cache_before
  /\ triggers = 0

\* The call the claim prescribes for a sample: add with the sample's GUID,
\* its owner's GUID, topic, type and kind Publisher for valid data of an
\* alive instance, remove of the sample's GUID otherwise.
ExpectedCall(sample) ==
  IF sample.valid_data /\ sample.instance_state = "ALIVE_INSTANCE_STATE"
    THEN [op |-> "add",
          guid |-> DDS_InstanceHandle_to_GUID(sample.instance_handle),
          participant_guid |-> DDS_BuiltinTopicKey_to_GUID(sample.participant_key),
          topic_name |-> sample.topic_name, type_name |-> sample.type_name,
          kind |-> "Publisher"]
    ELSE [op |-> "remove",
          guid |-> DDS_InstanceHandle_to_GUID(sample.instance_handle),
          kind |-> "Publisher"]

\* C16: for every sample of a batch exactly one call is made, in batch
\* order: add (own GUID, owner GUID, topic, type, Publisher) exactly when the
\* sample has valid data and is alive, remove of the sample's GUID otherwise;
\* when the callback returns every sample has had its call.
C16_OneCallPerSample ==
  /\ Len(applied) = li
  /\ li <= Len(data_seq)
  /\ \A k \in 1..Len(applied) : applied[k] = ExpectedCall(data_seq[k])
  /\ (lpc \in {"return_loan", "returned"} /\ retcode = "RETCODE_OK")
       => Len(applied) = Len(data_seq)
  /\ (lpc = "returned" /\ retcode # "RETCODE_OK") => applied = <<>>

\* A batch of an add and a remove has been applied, one call each.
C16_Witness ==
  /\ lpc = "returned"
  /\ Len(data_seq) = 2
  /\ Len(applied) = 2
  /\ applied[1].op = "add"
  /\ applied[2].op = "remove"

\* The GUIDs of the entity records in cache c.
CacheGuids(c) == {e.guid : e \in c.entities}

\* A sample that is a removal event: not (valid data of an alive instance).
IsRemovalEvent(sample) ==
  ~(sample.valid_data /\ sample.instance_state = "ALIVE_INSTANCE_STATE")

\* C14: a removal event for a GUID that is not in the cache leaves the whole
\* cache identical and raises no error: the callback goes on with its loop.
C14_AbsentRemovalIsNoOp ==
  [][(/\ lpc = "loop"
      /\ li < Len(data_seq)
      /\ IsRemovalEvent(data_seq[li + 1])
      /\ DDS_InstanceHandle_to_GUID(data_seq[li + 1].instance_handle)
           \notin CacheGuids(cache))
     => (cache' = cache /\ lpc' = "loop" /\ li' = li + 1)]_vars

\* Reached: a removal of a GUID the non-empty cache did not hold has been
\* applied as the first sample of a batch.
C14_Witness ==
  /\ lpc = "loop"
  /\ li = 1
  /\ applied[1].op = "remove"
  /\ applied[1].guid \notin CacheGuids(cache_before)
  /\ cache_before.entities # {}
  /\ cache = cache_before

\* C15 as stated: whenever the cache after the callback equals the cache
\* before it, the guard condition was not triggered.
C15_TriggerOnlyIfChanged ==
  (lpc = "returned" /\ cache = cache_before) => triggers = 0

\* C15: the guard condition is triggered only by a callback whose take
\* returned OK with at least one sample, and then only after the sample
\* loop; whether the cache changed plays no part.
C15_TriggerOnlyIfSampleTaken ==
  triggers > 0
  => (/\ retcode = "RETCODE_OK"
      /\ Len(data_seq) > 0
      /\ lpc \in {"return_loan", "returned"})

\* Reached: a batch of removals of absent GUIDs left the cache as it was
\* and the guard condition was triggered.
C15_Witness ==
  /\ lpc = "returned"
  /\ Len(data_seq) >= 1
  /\ \A k \in 1..Len(applied) : applied[k].op = "remove"
  /\ cache = cache_before
  /\ triggers = 1

\* The cache after the first k samples of batch seq have been applied to c
\* in batch order, each as the claim prescribes.
RECURSIVE ApplyAll(_, _, _)
ApplyAll(c, seq, k) ==
  IF k = 0 THEN c
  ELSE LET call == ExpectedCall(seq[k])
           prev == ApplyAll(c, seq, k - 1)
       IN IF call.op = "add"
            THEN add_information(prev, call.participant_guid, call.guid,
                                 call.topic_name, call.type_name, call.kind)
            ELSE remove_information(prev, call.guid, call.kind)

\* C17: the guard condition is triggered only after every sample of the
\* batch has been applied, and the loan is returned only after the trigger;
\* from the trigger on the cache holds every change of the batch.
C17_TriggerAfterLoopBeforeReturnLoan ==
  /\ lpc = "loop" => (triggers = 0 /\ returned = 0)
  /\ triggers > 0
       => (/\ li = Len(data_seq)
           /\ Len(applied) = Len(data_seq)
           /\ cache = ApplyAll(cache_before, data_seq, Len(data_seq)))
  /\ lpc = "return_loan" => returned = 0
  /\ (returned > 0 /\ Len(data_seq) > 0) => triggers = 1

\* Reached: the guard condition has been triggered for a batch of two
\* samples that changed the cache, and the loan is not returned yet.
C17_Witness ==
  /\ lpc = "return_loan"
  /\ triggers = 1
  /\ returned = 0
  /\ Len(data_seq) = 2
  /\ cache # cache_before

\* C19: a take that returned OK, with samples or with none, is followed by
\* exactly one return_loan before the callback returns; after a failed
\* narrow, NO_DATA or an error return_loan is not called at all.
C19_LoanReturnedExactlyOnce ==
  /\ lpc = "returned" => returned = (IF retcode = "RETCODE_OK" THEN 1 ELSE 0)
  /\ lpc \in {"idle", "returned"} => loans = 0
  /\ lpc \in {"loop", "return_loan"} => (loans = 1 /\ returned = 0)

\* Reached: a take that returned OK with no sample has had its loan
\* returned.
C19_Witness ==
  /\ lpc = "returned"
  /\ retcode = "RETCODE_OK"
  /\ Len(data_seq) = 0
  /\ returned = 1
  /\ loans = 0

\* Some fetch of the current call failed.
SomeFetchFailed == \E j \in 1..Len(fetched) : fetched[j] = <<>>

\* C18: a failed fetch of one discovered participant's data only leaves
\* that participant out: the loop goes on to every later handle, no error
\* is recorded, and the call returns OK with its own node and every named
\* participant whose fetch succeeded.
C18_FailedFetchIsSkipped ==
  /\ (pc \in {"loop", "dup_name", "dup_namespace"} /\ SomeFetchFailed)
       => (error_msg = "" /\ final_ret = "RMW_RET_OK")
  /\ (pc = "done" /\ SomeFetchFailed /\ ZeroOutputsPassed /\ ~alloc_failed)
       => (/\ ret = "RMW_RET_OK"
           /\ error_msg = ""
           /\ Len(fetched) = Len(handles)
           /\ node_names.size = 1 + Len(NamedFetched)
           /\ node_namespaces.size = 1 + Len(NamedFetched))

\* Reached: the first fetch failed, the second delivered a named
\* participant, and the call returned OK with the own node and that one.
C18_Witness ==
  /\ ReturnedOK
  /\ ~alloc_failed
  /\ Len(fetched) = 2
  /\ fetched[1] = <<>>
  /\ IsNamed(fetched[2])
  /\ node_names.size = 2
  /\ node_names.data[2] = Ptr(ListedName(fetched[2][1]))

\* C20: at the start of every iteration of the discovered-participant loop
\* 1 <= named_nodes_num <= i <= length, slots [0, named_nodes_num) of both
\* temporary arrays are populated and slots [named_nodes_num, length) are
\* null; the populated slots after the first hold the named participants
\* fetched so far in the order of the handle list, without gaps.
C20_LoopInvariant ==
  pc = "loop"
  => (/\ 1 <= named_nodes_num /\ named_nodes_num <= i /\ i <= length
      /\ length = Len(handles) + 1
      /\ Len(fetched) = i - 1
      /\ tmp_names_list.size = length /\ tmp_namespaces_list.size = length
      /\ \A k \in 1..named_nodes_num :
           ~IsNull(tmp_names_list.data[k]) /\ ~IsNull(tmp_namespaces_list.data[k])
      /\ \A k \in (named_nodes_num + 1)..length :
           IsNull(tmp_names_list.data[k]) /\ IsNull(tmp_namespaces_list.data[k])
      /\ named_nodes_num = 1 + Len(NamedFetched)
      /\ \A k \in 1..Len(NamedFetched) :
           <<tmp_names_list.data[k + 1], tmp_namespaces_list.data[k + 1]>>
             = ExpectedPairs[k])

\* Reached: the loop stands behind an unnamed participant and a named one,
\* so the named one sits in slot 1 although it was fetched at index 2.
C20_Witness ==
  /\ pc = "loop"
  /\ i = 3
  /\ named_nodes_num = 2
  /\ ~IsNamed(fetched[1])
  /\ IsNamed(fetched[2])
  /\ ~IsNull(tmp_names_list.data[2])
  /\ IsNull(tmp_names_list.data[3])

\* The last event applied to the cache was the removal of a participant.
ParticipantRemoved ==
  applied # <<>> /\ applied[1].op = "remove" /\ applied[1].kind = "Participant"

\* C13: right after a participant-removal event the cache holds no endpoint
\* record owned by the removed participant, nor the participant itself.
C13_RemovalCascades ==
  ParticipantRemoved
  => (/\ \A e \in cache.entities : e.owning_participant_guid # applied[1].guid
      /\ \A p \in cache.participants : p.guid # applied[1].guid)

\* Reached: a participant owning an endpoint was removed while another
\* participant's endpoint stays in the cache.
C13_Witness ==
  /\ ParticipantRemoved
  /\ \E e \in cache_before.entities : e.owning_participant_guid = applied[1].guid
  /\ cache.entities # {}
  /\ cache.entities = {e \in cache_before.entities :
                          e.owning_participant_guid # applied[1].guid}

\* ------------------------------------------------------------ instants of a call
\* The named participants in discovery database disc, each with its slot
\* and its data.
KnownNamed(disc) ==
  {[handle |-> h, data |-> disc[h][1]] : h \in {k \in Handles : IsNamed(disc[k])}}

\* When the database may change while its instants are followed: between
\* calls, and during a call up to MaxChanges times between two fetches of
\* the loop, where a change can split the result between instants.
MayChangeFollowed ==
  \/ pc = "idle"
  \/ /\ changes < MaxChanges
     /\ pc = "loop" /\ 1 < i /\ i < length

\* The instants after a change: between calls only the present one counts
\* for the next call; during a call the new one is added.
Follow(disc) ==
  /\ instants' = IF pc = "idle" THEN {KnownNamed(disc)}
                  ELSE instants \cup {KnownNamed(disc)}
  /\ changes' = IF pc = "idle" THEN 0 ELSE changes + 1

\* The participants whose coming and going is followed: one named by its
\* user data, one by its transport-level name.
FollowedData ==
  { [user_data |-> <<<<"name", "robot1">>, <<"namespace", "/fleet">>>>,
     participant_name |-> Null],
    [user_data |-> <<<<"name", "">>>>, participant_name |-> Ptr("pname")] }

\* A participant appears in slot h.
DiscoverFollowed(h, d) ==
  /\ MayChangeFollowed
  /\ discovered[h] = <<>>
  /\ discovered' = [discovered EXCEPT ![h] = <<d>>]
  /\ Follow(discovered')
  /\ UNCHANGED <<qvars, lvars, listeners, delivered, snapshot>>

\* The participant of slot h disappears.
LoseFollowed(h) ==
  /\ MayChangeFollowed
  /\ discovered[h] # <<>>
  /\ discovered' = [discovered EXCEPT ![h] = <<>>]
  /\ Follow(discovered')
  /\ UNCHANGED <<qvars, lvars, listeners, delivered, snapshot>>

\* One call of get_node_names, made with a zero-initialized namespaces
\* array, with the instants of the discovery database followed from the
\* call to its return.
SnapshotNext ==
  \/ \E h \in Handles, d \in FollowedData : DiscoverFollowed(h, d)
  \/ \E h \in Handles : LoseFollowed(h)
  \/ \E nd \in Nodes, nm \in OutputArrays : Call(nd, nm, ZeroArray)
  \/ \E ok \in BOOLEAN : GetDiscoveredParticipants(ok)
  \/ \E ok \in BOOLEAN : GetQos(ok)
  \/ \E ok \in BOOLEAN : InitTmpNames(ok)
  \/ \E ok \in BOOLEAN : InitTmpNamespaces(ok)
  \/ \E ok \in BOOLEAN : DupOwnName(ok)
  \/ \E ok \in BOOLEAN : DupOwnNamespace(ok)
  \/ \E ok \in BOOLEAN : LoopFetch(ok)
  \/ \E ok \in BOOLEAN : DupName(ok)
  \/ \E ok \in BOOLEAN : DupNamespace(ok)
  \/ \E ok \in BOOLEAN : InitNodeNames(ok)
  \/ \E ok \in BOOLEAN : InitNodeNamespaces(ok)
  \/ \E ok_name \in BOOLEAN, ok_ns \in BOOLEAN : Copy(ok_name, ok_ns)
  \/ FiniTmp
  \/ Cleanup

SpecSnapshot == Init /\ [][SnapshotNext]_vars

RECURSIVE ParticipantSeq(_, _)
\* The participants of set S from slot h upwards, in the order of their
\* handles, which is the order of the transport's handle list.
ParticipantSeq(S, h) ==
  IF h > MaxParticipants THEN <<>>
  ELSE LET here == {p \in S : p.handle = h}
       IN (IF here = {} THEN <<>> ELSE <<CHOOSE p \in here : TRUE>>)
            \o ParticipantSeq(S, h + 1)

\* The result lists, after the own node, exactly the participants of S.
ReportsExactly(S) ==
  LET ps == ParticipantSeq(S, 1)
  IN /\ node_names.size = 1 + Len(ps)
     /\ node_namespaces.size = 1 + Len(ps)
     /\ \A k \in 1..Len(ps) :
          /\ node_names.data[k + 1] = Ptr(ListedName(ps[k].data))
          /\ node_namespaces.data[k + 1] = Ptr(ListedNamespace(ps[k].data))

\* A successful call in which no allocation and no fetch failed.
ReturnedOKUndisturbed ==
  ReturnedOK /\ ZeroOutputsPassed /\ ~alloc_failed /\ ~SomeFetchFailed

ReportsOnly(S) ==
  LET ps == ParticipantSeq(S, 1)
  IN /\ node_names.size <= 1 + Len(ps)
     /\ node_namespaces.size <= 1 + Len(ps)
     /\ \A k \in 1..(node_names.size - 1) :
          node_names.data[k + 1] \in {Null, Ptr(ListedName(ps[k].data))}
     /\ \A k \in 1..(node_namespaces.size - 1) :
          node_namespaces.data[k + 1] \in {Null, Ptr(ListedNamespace(ps[k].data))}

LastDelivered(batch, g, prev) ==
  LET idx == {k \in 1..Len(batch) : ExpectedCall(batch[k]).guid = g}
  IN IF idx = {} THEN prev
     ELSE ExpectedCall(batch[CHOOSE k \in idx : \A m \in idx : m <= k]).op

\* The transport calls on_data_available of listener l, whose take yields
\* batch.
OnDataAvailableAt(l, batch) ==
  /\ listeners[l].pc = "idle"
  /\ listeners' = [listeners EXCEPT ![l] =
                     [pc |-> "loop", data_seq |-> batch, i |-> 0, calls |-> <<>>]]
  /\ delivered' = [g \in ListenerGuids |-> LastDelivered(batch, g, delivered[g])]
  /\ UNCHANGED <<envvars, qvars, lvars, instants, changes, snapshot>>

\* One iteration of the sample loop of listener l: the add or the remove
\* is applied to the shared cache under the cache's lock, in one step.
ApplySampleAt(l) ==
  /\ listeners[l].pc = "loop"
  /\ listeners[l].i < Len(listeners[l].data_seq)
  /\ LET sample == SampleAt(listeners[l].data_seq, listeners[l].i)
         guid == SampleGuid(sample)
         participant_guid == DDS_BuiltinTopicKey_to_GUID(sample.participant_key)
     IN /\ cache' = IF SampleOp(sample) = "add"
                      THEN add_information(cache, participant_guid, guid,
                                           sample.topic_name, sample.type_name, l)
                      ELSE remove_information(cache, guid, l)
        /\ listeners' = [listeners EXCEPT
                           ![l].i = @ + 1,
                           ![l].calls = Append(@, [op |-> SampleOp(sample),
                                                   guid |-> guid])]
  /\ UNCHANGED <<envvars, qvars, lpc, retcode, data_seq, li, cache_before, triggers,
                 loans, returned, applied, instants, changes, delivered, snapshot>>

\* After the loop listener l triggers the guard condition, returns the
\* loan and gives the thread back to the transport.
ReturnAt(l) ==
  /\ listeners[l].pc = "loop"
  /\ ~(listeners[l].i < Len(listeners[l].data_seq))
  /\ listeners' = [listeners EXCEPT ![l] = IdleListener]
  /\ UNCHANGED <<envvars, qvars, lvars, instants, changes, delivered, snapshot>>

\* A reader takes a snapshot of the cache under the cache's lock.
TakeSnapshot ==
  /\ snapshot' = CacheGuids(cache)
  /\ UNCHANGED <<envvars, qvars, lvars, instants, changes, listeners, delivered>>

\* The callbacks of the two listeners and snapshot readers, interleaved.
ConcurrentNext ==
  \/ \E l \in Listeners : \E batch \in ListenerBatches(l) : OnDataAvailableAt(l, batch)
  \/ \E l \in Listeners : ApplySampleAt(l)
  \/ \E l \in Listeners : ReturnAt(l)
  \/ TakeSnapshot

SpecConcurrent == Init /\ [][ConcurrentNext]_vars

====
